---- MODULE Spec2Model ----
(***************************************************************************)
(* State-machine model of rtklient: the NTRIP/RTCM stream reassembler      *)
(* (ntripdecoder.py), the NMEA decoder and its threaded serial ingestion   *)
(* (gpsdecoder.py).  Python indices are 0-based; sequences here are        *)
(* 1-based, and the helpers At and Slice carry the translation.            *)
(***************************************************************************)
EXTENDS Integers, Sequences, FiniteSets, TLC

VARIABLES
    net,      \* caster side: the poll() results still to come, in order
    data,     \* NtripDecode.data, the accumulator
    d,        \* value returned by the last get_msg()/receive_rtcm()
    pre,      \* accumulator on entry to the last get_msg() (after the append)
    parts,    \* per call so far: the part appended before get_msg() (<<>> if none)
    outs,     \* per call so far: the value returned
    nexc,     \* exception raised by the last NtripDecode call, or "none"
    resp,     \* caster side: the response to a source table request, to come
    country,  \* argument of the last get_sourcetable()
    table,    \* the text the last get_sourcetable() received
    sourcelines, \* NtripDecode.sourcelines
    sources,  \* NtripDecode.sources: name -> <<country, lat, lon>>
    arg,      \* argument of a call of a module-level function
    res,      \* what that call returned, None before the call
    written,  \* streaming loop: the arguments of gps.ser_out(), in order
    lexc,     \* streaming loop: the exception that ended it, or "none"
    rxq,      \* GpsDecode.rxq, the queue between worker and consumer
    pc,       \* consumer: where it is in read()/decode()/qualstr()
    raw,      \* item dequeued by the last read()
    line,     \* value returned by the last read()
    fix,      \* the decoder's fix fields (lat, lon, alt, quality, ...)
    ret,      \* value returned by the last decode()
    qs,       \* value returned by the last qualstr()
    gexc,     \* exception raised by the last GpsDecode call, or "none"
    nsent,    \* what the receiver has sent so far: lines, or bytes on the device
    dev,      \* serial device: bytes received and not yet read
    wline,    \* worker: its local line buffer
    wpc,      \* worker: where it is in ser_in()
    receiving, \* GpsDecode.receiving, the ingestion flag
    ser,      \* GpsDecode.ser: "none", or the device "open" or "closed"
    cpc,      \* the caller of ser_close(): where it is
    wrd,      \* worker: all bytes it has read from the device, in order
    wput,     \* worker: all items it has put on the queue, in order
    closedAt  \* items put when ser_close() cleared the flag, -1 before

rtcmVars == <<net, data, d, pre, parts, outs, nexc>>

tableVars == <<resp, country, table, sourcelines, sources>>

fnVars == <<arg, res>>

loopVars == <<written, lexc>>

ntripVars == <<rtcmVars, tableVars, fnVars, loopVars>>

gpsVars == <<rxq, pc, raw, line, fix, ret, qs, gexc, nsent>>

serVars == <<dev, wline, wpc, receiving, ser, cpc, wrd, wput, closedAt>>

vars == <<ntripVars, gpsVars, serVars>>

(***************************************************************************)
(* Bounds of the model.                                                    *)
(***************************************************************************)
MaxPayload == 1     \* longest payload of a frame the caster builds
MaxUnits == 2       \* units (frames, text, noise) in one caster stream
MaxStreamLen == 14  \* bytes in one caster stream
MaxCalls == 3       \* get_msg()/receive_rtcm() calls in one run
MaxLines == 2       \* NMEA lines the receiver sends in one run
MaxDevBytes == 4    \* bytes the receiver sends in one run of the serial path
MaxTableLines == 2  \* lines in one source table response
MaxPolls == 4       \* receive_rtcm calls in one run of the burst path
MaxCrcLen == 3      \* bytes in an argument of crc24
MaxOffset == 9      \* largest bit offset of a field read by getbits2
MaxWidth == 38      \* widest field read by getbits2 (decode_1006)
LimbBits == 19      \* bits in the low part of a number held as a pair
StationLen == 19    \* bytes of a message that holds all of bits 0..151
ReservedBits == 6   \* bits of header byte 1 above the 10-bit length

(***************************************************************************)
(* Program constants.                                                      *)
(***************************************************************************)
RTCM_START == 211
BLOCK_MAX == 1030
MaxRtcmLen == 1024
CR == 13
LF == 10

(***************************************************************************)
(* Integer helpers: Python's ^, >> and & on non-negative integers.         *)
(***************************************************************************)
RECURSIVE XorBits(_, _)
XorBits(a, b) ==
    IF a = 0 THEN b
    ELSE IF b = 0 THEN a
    ELSE (((a % 2) + (b % 2)) % 2) + 2 * XorBits(a \div 2, b \div 2)

\* a ^ b on 4-bit values, tabulated once: XorNibble[a + 1][b + 1]
XorNibble == <<>> \o [a \in 1..16 |-> <<>> \o [b \in 1..16 |-> XorBits(a - 1, b - 1)]]

\* a ^ b on bytes
XorByte ==
    [a \in 0..255 |-> [b \in 0..255 |->
        XorNibble[(a \div 16) + 1][(b \div 16) + 1] * 16
            + XorNibble[(a % 16) + 1][(b % 16) + 1]]]

\* a ^ b for 0 <= a, b < 2^24, byte by byte
Xor(a, b) ==
    XorByte[a \div 65536][b \div 65536] * 65536
        + XorByte[(a \div 256) % 256][(b \div 256) % 256] * 256
        + XorByte[a % 256][b % 256]

\* data[i] and data[a:b] of Python, for 0 <= i < len and 0 <= a
At(s, i) == s[i + 1]
Min(a, b) == IF a < b THEN a ELSE b
\* the whole of s, whatever the end asked for
SliceAll(s, a, b) == s
Slice(s, a, b) == SubSeq(s, a + 1, Min(b, Len(s)))
\* nothing removed from the front
FromStart(s, a) == s
From(s, a) == SubSeq(s, a + 1, Len(s))

CRC24_TABLE == <<
    0, 8801531, 9098509, 825846, 9692897, 1419802, 1651692, 10452759,
    10584377, 2608578, 2839604, 11344079, 3303384, 11807523, 12104405, 4128302,
    12930697, 4391538, 5217156, 13227903, 5679208, 13690003, 14450021, 5910942,
    6606768, 14844747, 15604413, 6837830, 16197969, 7431594, 8256604, 16494759,
    840169, 9084178, 8783076, 18463, 10434312, 1670131, 1434117, 9678590,
    11358416, 2825259, 2590173, 10602790, 4109873, 12122826, 11821884, 3289031,
    13213536, 5231515, 4409965, 12912278, 5929345, 14431610, 13675660, 5693559,
    6823513, 15618722, 14863188, 6588335, 16513208, 8238147, 7417269, 16212302,
    1680338, 10481449, 9664223, 1391140, 9061683, 788936, 36926, 8838341,
    12067563, 4091408, 3340262, 11844381, 2868234, 11372785, 10555655, 2579964,
    14478683, 5939616, 5650518, 13661357, 5180346, 13190977, 12967607, 4428364,
    8219746, 16457881, 16234863, 7468436, 15633027, 6866552, 6578062, 14816117,
    1405499, 9649856, 10463030, 1698765, 8819930, 55329, 803287, 9047340,
    11858690, 3325945, 4072975, 12086004, 2561507, 10574104, 11387118, 2853909,
    13647026, 5664841, 5958079, 14460228, 4446803, 12949160, 13176670, 5194661,
    7454091, 16249200, 16476294, 8201341, 14834538, 6559633, 6852199, 15647388,
    3360676, 11864927, 12161705, 4185682, 10527045, 2551230, 2782280, 11286707,
    9619101, 1346150, 1577872, 10379115, 73852, 8875143, 9172337, 899466,
    16124205, 7357910, 8182816, 16421083, 6680524, 14918455, 15678145, 6911546,
    5736468, 13747439, 14507289, 5968354, 12873461, 4334094, 5159928, 13170435,
    4167245, 12180150, 11879232, 3346363, 11301036, 2767959, 2532769, 10545498,
    10360692, 1596303, 1360505, 9604738, 913813, 9157998, 8856728, 92259,
    16439492, 8164415, 7343561, 16138546, 6897189, 15692510, 14936872, 6662099,
    5986813, 14488838, 13733104, 5750795, 13156124, 5174247, 4352529, 12855018,
    2810998, 11315341, 10498427, 2522496, 12124823, 4148844, 3397530, 11901793,
    9135439, 862644, 110658, 8912057, 1606574, 10407765, 9590435, 1317464,
    15706879, 6940164, 6651890, 14889737, 8145950, 16384229, 16161043, 7394792,
    5123014, 13133629, 12910283, 4370992, 14535975, 5997020, 5707818, 13718737,
    2504095, 10516836, 11329682, 2796649, 11916158, 3383173, 4130419, 12143240,
    8893606, 129117, 876971, 9121104, 1331783, 9576124, 10389322, 1625009,
    14908182, 6633453, 6925851, 15721184, 7380471, 16175372, 16402682, 8127489,
    4389423, 12891860, 13119266, 5137369, 13704398, 5722165, 6015427, 14517560 >>

(***************************************************************************)
(* crc24 (ntripdecoder.py 73-77).  Python keeps val unbounded and masks    *)
(* once at the end; bits 24 and up are only ever shifted further left and  *)
(* are dropped by the final mask, so the value is kept to 24 bits after    *)
(* every byte:  ((val << 8) & 0xffffff) = (val % 2^16) * 2^8.              *)
(***************************************************************************)
\* the table entry alone, without the bits already shifted through
Crc24StepTableOnly(v, byte) == CRC24_TABLE[Xor(byte, (v \div 65536) % 256) + 1]
Crc24Step(val, byte) ==
    Xor((val % 65536) * 256, CRC24_TABLE[Xor(byte, (val \div 65536) % 256) + 1])

RECURSIVE Crc24From(_, _, _)
Crc24From(val, bytes, i) ==
    IF i > Len(bytes) THEN val
    ELSE Crc24From(Crc24Step(val, bytes[i]), bytes, i + 1)

crc24(bytes) == Crc24From(0, bytes, 1) % 16777216

\* bin_index (ntripdecoder.py 90-95): 0-based index of the first b, or -1
\* computed from the set of positions holding b, so that an accumulator of
\* several thousand bytes is searched without deep recursion
IndexFrom(where) ==
    IF where = {} THEN -1
    ELSE (CHOOSE i \in where : \A j \in where : i <= j) - 1

bin_index(s, b) == IndexFrom({i \in 1..Len(s) : s[i] = b})

\* the length word of get_msg: (data[1] << 8) + data[2]
LengthWord(s) == At(s, 1) * 256 + At(s, 2)

(***************************************************************************)
(* get_msg (ntripdecoder.py 163-184) as a function of the accumulator:     *)
(* the returned d, the accumulator afterwards, and the exception raised    *)
(* (an index beyond the end of the accumulator raises IndexError and       *)
(* leaves the accumulator as it was).                                      *)
(***************************************************************************)
TextBranch(s, idx) ==
    idx > 3 /\ At(s, idx - 2) = CR /\ At(s, idx - 1) = LF

FrameBranch(s, idx) == idx = 0 /\ Len(s) > 2

\* "if n > 1024": the declared length is not a valid one
LengthNeverBad(n) == FALSE
LengthBad(n) == n > MaxRtcmLen

\* "elif len(self.data) >= n + 6": header, payload and trailer are all there
CompleteWithoutTrailer(s, n) == Len(s) >= n + 3
Complete(s, n) == Len(s) >= n + 6

\* "if crc == 0"
CrcAlwaysOk(c) == TRUE
CrcOk(c) == crc24(c) = 0

\* "d = self.data = b''": nothing returned, nothing kept
ScrubFrameOnly(s, c) == [d |-> <<>>, data |-> From(s, Len(c)), exc |-> "none"]
Scrub(s, c) == [d |-> <<>>, data |-> <<>>, exc |-> "none"]

get_msg(s) ==
    LET idx == bin_index(s, RTCM_START) IN
    IF TextBranch(s, idx)
    THEN [d |-> Slice(s, 0, idx), data |-> From(s, idx), exc |-> "none"]
    ELSE IF FrameBranch(s, idx)
    THEN LET n == LengthWord(s) IN
         IF Len(s) < 3
         THEN [d |-> <<>>, data |-> s, exc |-> "IndexError"]
         ELSE IF LengthBad(n)
         THEN Scrub(s, s)
         ELSE IF Complete(s, n)
         THEN LET c == Slice(s, 0, n + 6) IN
              IF CrcOk(c)
              THEN [d |-> c, data |-> From(s, Len(c)), exc |-> "none"]
              ELSE Scrub(s, c)
         ELSE [d |-> <<>>, data |-> s, exc |-> "none"]
    ELSE IF idx > 0
    THEN [d |-> <<>>, data |-> From(s, idx), exc |-> "none"]
    ELSE [d |-> <<>>, data |-> s, exc |-> "none"]

(***************************************************************************)
(* The caster: what one connection can carry.  A stream is a run of units  *)
(* (CRC-valid frames, frames with one payload bit flipped, headers that    *)
(* declare more than 1024 bytes, CRLF-terminated text, noise) and reaches  *)
(* the client cut at arbitrary points into the results of poll().          *)
(***************************************************************************)
PayloadBytes == {62, 211}

SeqsUpTo(S, n) == UNION {[1..k -> S] : k \in 0..n}

Payloads == SeqsUpTo(PayloadBytes, MaxPayload)

Header(n) == <<RTCM_START, n \div 256, n % 256>>

Trailer(c) == <<c \div 65536, (c \div 256) % 256, c % 256>>

\* a well-formed RTCM3 frame: header, payload, CRC24 of both
Frame(p) == LET h == Header(Len(p)) \o p IN h \o Trailer(crc24(h))

ValidFrames == {Frame(p) : p \in Payloads}

\* frame f with bit b of its payload inverted (bit 0 = MSB of payload byte 0)
FlipBit(f, b) ==
    [f EXCEPT ![4 + (b \div 8)] = Xor(@, 2 ^ (7 - (b % 8)))]

PayloadBits(f) == 0..(8 * (Len(f) - 6) - 1)

FlippedFrames == UNION {{FlipBit(f, b) : b \in PayloadBits(f)} : f \in ValidFrames}

BadLengthHeaders == {Header(MaxRtcmLen + 1), Header(65535)}

TextUnits == {<<79, 75, CR, LF>>, <<65, CR, LF>>, <<CR, LF>>}

NoiseUnits == {<<65>>, Header(MaxRtcmLen)}

Units == ValidFrames \cup BadLengthHeaders \cup TextUnits \cup NoiseUnits

\* runs of at most n units, at most MaxStreamLen bytes long
RECURSIVE Streams(_)
Streams(n) ==
    IF n = 0 THEN {<<>>}
    ELSE LET shorter == Streams(n - 1) IN
         shorter \cup {s \in {u \o t : u \in Units, t \in shorter} :
                          Len(s) <= MaxStreamLen}

\* what may follow a corrupted frame in the same stream
Tails == {<<>>, <<65>>, <<RTCM_START>>, Frame(<<>>)}

FlippedStreams == {f \o t : f \in FlippedFrames, t \in Tails}

\* a stream as it reaches the client: in one poll() result, or cut in two
\* at any point
Cuts(s) ==
    IF Len(s) = 0 THEN {<<>>}
    ELSE {<<s>>} \cup {<<SubSeq(s, 1, k), From(s, k)>> : k \in 1..(Len(s) - 1)}

Scripts == UNION {Cuts(s) : s \in Streams(MaxUnits) \cup FlippedStreams}

(***************************************************************************)
(* NtripDecode: construction and calls.                                    *)
(***************************************************************************)
\* NtripDecode.__init__ (106-111)
NtripNew ==
    /\ data = <<>>
    /\ d = <<>>
    /\ pre = <<>>
    /\ parts = <<>>
    /\ outs = <<>>
    /\ nexc = "none"
    /\ sourcelines = <<>>
    /\ sources = <<>>

\* "self.data += part"
AccumulateLatest(acc, part) == IF part = <<>> THEN acc ELSE part
Accumulate(acc, part) == acc \o part

\* the body of receive_rtcm after poll() returned part (<<>>: None or b"")
ReceiveRtcm(part) ==
    LET acc == Accumulate(data, part)
        r == get_msg(acc)
    IN  /\ pre' = acc
        /\ data' = r.data
        /\ d' = r.d
        /\ nexc' = r.exc
        /\ parts' = Append(parts, part)
        /\ outs' = Append(outs, r.d)

\* receive_rtcm called on its own
Receive(part) ==
    /\ ReceiveRtcm(part)
    /\ UNCHANGED <<tableVars, fnVars, loopVars, gpsVars, serVars>>

\* receive_rtcm (ntripdecoder.py 187-191); poll() (134-136) hands over the
\* next result the socket holds, at most BLOCK_MAX bytes of it
ReceiveRtcmData ==
    /\ Len(outs) < MaxCalls
    /\ net # <<>>
    /\ Len(Head(net)) <= BLOCK_MAX
    /\ Receive(Head(net))
    /\ net' = Tail(net)

\* receive_rtcm when poll() finds the socket not ready; a direct get_msg()
\* call has the same effect
ReceiveRtcmIdle ==
    /\ Len(outs) < MaxCalls
    /\ Receive(<<>>)
    /\ UNCHANGED net

NtripNext == ReceiveRtcmData \/ ReceiveRtcmIdle

\* what one poll() of a busy connection can return: a full block of bytes
\* that are not the preamble, one frame, two or three frames together, text
Quiet(n) == [i \in 1..n |-> 0]

Blocks ==
    {Quiet(BLOCK_MAX), Quiet(1),
     Frame(<<>>), Frame(<<>>) \o Frame(<<62>>),
     Frame(<<62>>) \o Frame(<<>>) \o Frame(<<>>),
     <<79, 75, CR, LF>>}

\* receive_rtcm (187-191) on a connection that has a block ready
ReceiveRtcmBlock ==
    /\ Len(outs) < MaxPolls
    /\ \E part \in Blocks :
        /\ Len(part) <= BLOCK_MAX
        /\ Receive(part)
    /\ UNCHANGED net

\* receive_rtcm when that connection has nothing ready
ReceiveRtcmQuiet ==
    /\ Len(outs) < MaxPolls
    /\ Receive(<<>>)
    /\ UNCHANGED net

(***************************************************************************)
(* gpsdecoder.py.  A Python str is a TLA+ string, with SubSeq, Len and \o  *)
(* for slicing, len and +.   None is <<>> and a value v that may be None    *)
(* is <<v>>.  A float is the integer number of 1/60000ths it holds, which  *)
(* is exact for decimal text of up to three places and for the division    *)
(* of minutes by 60.                                                       *)
(***************************************************************************)
Scale == 60 * 1000

\* s[m-1:n] of a str, 1 <= m: the characters m..n that exist
Sub(s, m, n) ==
    IF m > n \/ m > Len(s) THEN ""
    ELSE SubSeq(s, m, IF n < Len(s) THEN n ELSE Len(s))

None == <<>>
Some(v) == <<v>>

\* character codes: ord() of the characters the model uses
Printable ==
    <<[first |-> 32, chars |-> " !"],
      [first |-> 35, chars |-> "#$%&'()*+,-./0123456789:;<=>?@"],
      [first |-> 65, chars |-> "ABCDEFGHIJKLMNOPQRSTUVWXYZ"],
      [first |-> 97, chars |-> "abcdefghijklmnopqrstuvwxyz"]>>

CharRun(k) ==
    [i \in 1..Len(Printable[k].chars) |->
        <<Sub(Printable[k].chars, i, i), Printable[k].first + i - 1>>]

\* the <<character, code>> pairs of the characters the sentences are made of
CharCodes ==
    <<<<"\t", 9>>, <<"\n", 10>>, <<"\r", 13>>>>
        \o CharRun(1) \o CharRun(2) \o CharRun(3) \o CharRun(4)

\* the function of a sequence of <<argument, value>> pairs, tabulated once
RECURSIVE Tabulate(_, _, _, _)
Tabulate(pairs, from, to, i) ==
    IF i > Len(pairs) THEN <<>>
    ELSE (pairs[i][from] :> pairs[i][to]) @@ Tabulate(pairs, from, to, i + 1)

OrdMap == Tabulate(CharCodes, 1, 2, 1)

ChrMap == Tabulate(CharCodes, 2, 1, 1)

ord(c) == OrdMap[c]
chr(b) == ChrMap[b]

\* s[i] for 0 <= i < len(s)
Ch(s, i) == Sub(s, i + 1, i + 1)

Whitespace == {" ", "\t", "\n", "\r"}

RECURSIVE LStrip(_)
LStrip(s) ==
    IF Len(s) > 0 /\ Ch(s, 0) \in Whitespace
    THEN LStrip(Sub(s, 2, Len(s)))
    ELSE s

RECURSIVE RStrip(_)
RStrip(s) ==
    IF Len(s) > 0 /\ Ch(s, Len(s) - 1) \in Whitespace
    THEN RStrip(Sub(s, 1, Len(s) - 1))
    ELSE s

\* str.strip()
strip(s) == RStrip(LStrip(s))

\* str.split(sep) for a one-character separator
RECURSIVE SplitFrom(_, _, _, _)
SplitFrom(s, sep, start, i) ==
    IF i > Len(s) THEN <<Sub(s, start, Len(s))>>
    ELSE IF Sub(s, i, i) = sep
    THEN <<Sub(s, start, i - 1)>> \o SplitFrom(s, sep, i + 1, i + 1)
    ELSE SplitFrom(s, sep, start, i + 1)

split(s, sep) == SplitFrom(s, sep, 1, 1)

\* "x in s" for strings: x occurs in s as a substring
IsSubstr(x, s) ==
    \E i \in 1..(Len(s) + 1) :
        i + Len(x) - 1 <= Len(s) /\ Sub(s, i, i + Len(x) - 1) = x

Digits == "0123456789abcdef"

IsDigit(c, base) ==
    \E i \in 1..base : Sub(Digits, i, i) = c \/ Sub("0123456789ABCDEF", i, i) = c

DigitVal(c) ==
    (CHOOSE i \in 1..16 :
        Sub(Digits, i, i) = c \/ Sub("0123456789ABCDEF", i, i) = c) - 1

AllDigits(s, base) == \A i \in 1..Len(s) : IsDigit(Sub(s, i, i), base)

RECURSIVE DigitsVal(_, _)
DigitsVal(s, base) ==
    IF Len(s) = 0 THEN 0
    ELSE DigitsVal(Sub(s, 1, Len(s) - 1), base) * base
             + DigitVal(Sub(s, Len(s), Len(s)))

Signed(s) == Len(s) > 0 /\ Ch(s, 0) \in {"+", "-"}
Unsigned(s) == IF Signed(s) THEN Sub(s, 2, Len(s)) ELSE s
Sign(s) == IF Len(s) > 0 /\ Ch(s, 0) = "-" THEN -1 ELSE 1

\* the result of a conversion: a value, or the ValueError of int()/float()
Parsed(v) == [ok |-> TRUE, v |-> v]
Unparsable == [ok |-> FALSE, v |-> 0]

IntOfDigits(sign, u, base) ==
    IF Len(u) > 0 /\ AllDigits(u, base)
    THEN Parsed(sign * DigitsVal(u, base))
    ELSE Unparsable

IntOfStripped(t, base) == IntOfDigits(Sign(t), Unsigned(t), base)

\* int(s, base) on text: surrounding whitespace and one sign are accepted,
\* then digits of the base only; anything else is a ValueError.  (Python
\* also takes "_" between digits and a "0x" prefix before hexadecimal
\* digits; no text of the model has them.)
ParseInt(s, base) == IntOfStripped(strip(s), base)

\* 10^k for the scaling of decimal places
Pow10(k) == 10 ^ k

FloatOfDigits(sign, whole, frac) ==
    IF /\ Len(whole) + Len(frac) > 0
       /\ AllDigits(whole, 10)
       /\ AllDigits(frac, 10)
       /\ Len(frac) <= 3
    THEN Parsed(sign * (DigitsVal(whole, 10) * Scale
                    + DigitsVal(frac, 10) * (Scale \div Pow10(Len(frac)))))
    ELSE Unparsable

FloatOfPieces(sign, pieces) ==
    IF Len(pieces) > 2 THEN Unparsable
    ELSE FloatOfDigits(sign, pieces[1], IF Len(pieces) = 2 THEN pieces[2] ELSE "")

FloatOfStripped(t) == FloatOfPieces(Sign(t), split(Unsigned(t), "."))

\* float(s) on text: surrounding whitespace, one sign, digits with at most
\* one point and at least one digit; the value in 1/Scale units.  (Python
\* also takes exponents, "inf" and "nan"; no text of the model has them,
\* nor more than three decimal places.)
ParseFloat(s) == FloatOfStripped(strip(s))

\* sentence formats (gpsdecoder.py 31-42)
RMC_S == <<"id", "time", "status", "lat", "NS", "lon", "EW",
           "spd", "cog", "date", "mv", "mvEW", "posMode", "navStatus">>

GSA_S == <<"id", "opMode", "navMode", "sat1", "sat2", "sat3", "sat4",
           "sat5", "sat6", "sat7", "sat8", "sat9", "sat10", "sat11", "sat12",
           "PDOP", "HDOP", "VDOP">>

GGA_S == <<"id", "time", "lat", "NS", "lon", "EW", "quality", "nsats",
           "HDOP", "alt", "altUnit", "sep", "sepUnit", "diffAge", "diffStation">>

\* the dict built from a format: name -> 0-based position
Pos(fmt, name) == (CHOOSE i \in 1..Len(fmt) : fmt[i] = name) - 1

qualstrs == <<"No fix", "GNSS fix", "GNSS fix", "?", "RTK fix", "RTK float", "Estimate">>

\* getval (gpsdecoder.py 49-50)
getval(fields, fmt, name) ==
    IF Pos(fmt, name) < Len(fields) THEN Some(fields[Pos(fmt, name) + 1]) ELSE None

\* "try: ... except: return default" around a conversion
OrDefault(r, default) == IF r.ok THEN r.v ELSE default

\* str2int (53-58): int() of None is a TypeError, caught like ValueError
str2int(x, default) ==
    IF x = None THEN default ELSE OrDefault(ParseInt(x[1], 10), default)

\* str2float (61-66)
str2float(x, default) ==
    IF x = None THEN default ELSE OrDefault(ParseFloat(x[1]), default)

\* "n = 2 if nsew in 'NS' else 3"
DegDigitsAlways2(nsew) == 2
DegDigits(nsew) == IF IsSubstr(nsew, "NS") THEN 2 ELSE 3

\* "deg = float(dm[0:n]) + float(dm[n:]) / 60.0" and its sign (73-74)
DegMinValue(degs, mins, nsew) ==
    IF ~degs.ok \/ ~mins.ok THEN [v |-> 0, exc |-> "ValueError"]
    ELSE [v |-> (IF nsew = "S" \/ nsew = "W" THEN -1 ELSE 1)
                    * (degs.v + (mins.v \div 60)),
          exc |-> "none"]

DegMinSplit(dm, nsew, n) ==
    DegMinValue(ParseFloat(Sub(dm, 1, n)), ParseFloat(Sub(dm, n + 1, Len(dm))), nsew)

\* degmin_deg (69-75): the value, or the exception raised by len(None),
\* "None in str" or float() of unparsable text
degmin_deg(dm, nsew) ==
    IF dm = None THEN [v |-> 0, exc |-> "TypeError"]
    ELSE IF Len(dm[1]) < 4 THEN [v |-> 0, exc |-> "none"]
    ELSE IF nsew = None THEN [v |-> 0, exc |-> "TypeError"]
    ELSE IF ~IsSubstr(nsew[1], "NSEW") THEN [v |-> 0, exc |-> "none"]
    ELSE DegMinSplit(dm[1], nsew[1], DegDigits(nsew[1]))

\* reduce(lambda x,y: x^y, [ord(c) for c in s], 0)
RECURSIVE XorFold(_, _)
XorFold(s, i) ==
    IF i > Len(s) THEN 0
    ELSE XorByte[ord(Sub(s, i, i))][XorFold(s, i + 1)]

Checksum(s) == XorFold(s, 1)

\* the structural test of read(): "len(line)<9 or line[0]!='$' or line[-3]!='*'"
Malformed(l) ==
    Len(l) < 9 \/ Ch(l, 0) # "$" \/ Ch(l, Len(l) - 3) # "*"

\* "csum = reduce(...)" against "int(line[-2:], 16)" (138-141)
Verified(l, csum, given) ==
    IF ~given.ok THEN [line |-> "", exc |-> "ValueError"]
    ELSE IF csum # given.v THEN [line |-> "", exc |-> "none"]
    ELSE [line |-> l, exc |-> "none"]

ReadLine(l) ==
    IF Malformed(l) THEN [line |-> "", exc |-> "none"]
    ELSE Verified(l, Checksum(Sub(l, 2, Len(l) - 3)),
                  ParseInt(Sub(l, Len(l) - 1, Len(l)), 16))

\* read() (129-142) once an item has been dequeued: the line returned, or
\* the exception raised by int(line[-2:], 16)
read_item(item) == ReadLine(strip(item))

\* FixRecord: the decoder's fields after __init__ (81-83)
FixInit ==
    [lat |-> 0, lon |-> 0, alt |-> 0, quality |-> 0,
     pdop |-> 0, hdop |-> 0, vdop |-> 0, nsats |-> 0,
     hour |-> 0, min |-> 0, sec |-> 0]

DefaultDop == (99 * 1000 + 990) * 60

IsGSA(id) == id = "$GPGSA" \/ id = "$GNGSA"
IsGGA(id) == id = "$GPGGA" \/ id = "$GNGGA"

\* "t = getval(data, RMC, \"time\")" and hour, min, sec (160-163)
GgaTime(f, t) ==
    [f EXCEPT !.hour = str2int(Some(Sub(t, 1, 2)), 0),
              !.min = str2int(Some(Sub(t, 3, 4)), 0),
              !.sec = str2float(Some(Sub(t, 5, Len(t))), 0)]

\* the assignments from "self.lat = ..." on (165-171); those made before an
\* exception are kept
GgaFix(f, fields, la, lo) ==
    IF la.exc # "none" THEN [fix |-> f, ret |-> "", exc |-> la.exc]
    ELSE IF lo.exc # "none"
    THEN [fix |-> [f EXCEPT !.lat = la.v], ret |-> "", exc |-> lo.exc]
    ELSE [fix |-> [f EXCEPT
                     !.lat = la.v,
                     !.lon = lo.v,
                     !.quality = str2int(getval(fields, GGA_S, "quality"), 0),
                     !.nsats = str2int(getval(fields, GGA_S, "nsats"), 0),
                     !.hdop = str2float(getval(fields, GGA_S, "HDOP"), DefaultDop),
                     !.alt = str2float(getval(fields, GGA_S, "alt"), 0)],
          ret |-> "True", exc |-> "none"]

\* the GGA branch of decode (159-171)
decode_gga(f, fields) ==
    GgaFix(GgaTime(f, getval(fields, RMC_S, "time")[1]), fields,
           degmin_deg(getval(fields, GGA_S, "lat"), getval(fields, GGA_S, "NS")),
           degmin_deg(getval(fields, GGA_S, "lon"), getval(fields, GGA_S, "EW")))

\* the GSA branch of decode (153-156)
decode_gsa(f, fields) ==
    [fix |-> [f EXCEPT
                !.pdop = str2float(getval(fields, GSA_S, "PDOP"), DefaultDop),
                !.hdop = str2float(getval(fields, GSA_S, "HDOP"), DefaultDop),
                !.vdop = str2float(getval(fields, GSA_S, "VDOP"), DefaultDop)],
     ret |-> "False", exc |-> "none"]

DecodeFields(f, fields) ==
    IF Len(fields) < 3 THEN [fix |-> f, ret |-> "", exc |-> "none"]
    ELSE IF IsGSA(fields[1]) THEN decode_gsa(f, fields)
    ELSE IF IsGGA(fields[1]) THEN decode_gga(f, fields)
    ELSE [fix |-> f, ret |-> "False", exc |-> "none"]

\* decode (145-172): the fix record afterwards, the value returned ("" for
\* the early return, "True", "False") and the exception raised
decode(f, l) == DecodeFields(f, split(Sub(l, 1, Len(l) - 3), ","))

\* qualstr (183-184): q < len(qualstrs) guards the lookup; a negative q
\* indexes from the end of the tuple and raises IndexError below -len
qualstr(q) ==
    IF q < Len(qualstrs)
    THEN IF q >= 0 THEN [s |-> qualstrs[q + 1], exc |-> "none"]
         ELSE IF q >= -Len(qualstrs)
         THEN [s |-> qualstrs[Len(qualstrs) + q + 1], exc |-> "none"]
         ELSE [s |-> "", exc |-> "IndexError"]
    ELSE [s |-> "?", exc |-> "none"]


(***************************************************************************)
(* The receiver: the NMEA lines it can send.  Well-formed GGA sentences    *)
(* are formatted from numbers; the rest are sentences with fields cut off  *)
(* or replaced, other sentence types, and lines with a damaged frame.      *)
(***************************************************************************)
UpperDigits == "0123456789ABCDEF"

RECURSIVE Dec(_, _)
Dec(n, w) ==
    IF w = 0 THEN ""
    ELSE Dec(n \div 10, w - 1) \o Sub(UpperDigits, (n % 10) + 1, (n % 10) + 1)

Hex2(n) ==
    Sub(UpperDigits, (n \div 16) + 1, (n \div 16) + 1)
        \o Sub(UpperDigits, (n % 16) + 1, (n % 16) + 1)

RECURSIVE Join(_)
Join(fields) ==
    IF Len(fields) = 1 THEN fields[1]
    ELSE fields[1] \o "," \o Join(Tail(fields))

\* "$<body>*<2-hex-checksum>"
Sentence(body) == "$" \o body \o "*" \o Hex2(Checksum(body))

\* ddmm.mmm / dddmm.mmm from whole degrees and thousandths of a minute
DegMin(deg, mmin, w) ==
    Dec(deg, w) \o Dec(mmin \div 1000, 2) \o "." \o Dec(mmin % 1000, 3)

Abs(n) == IF n < 0 THEN -n ELSE n

\* metres, from thousandths
Metres(mm) ==
    (IF mm < 0 THEN "-" ELSE "") \o Dec(Abs(mm) \div 1000, 3)
        \o "." \o Dec(Abs(mm) % 1000, 3)

\* positions: whole degrees, thousandths of a minute, thousandths of a metre
Positions ==
    {[latDeg |-> 48, latMin |-> 7038, lonDeg |-> 11, lonMin |-> 31000, alt |-> 545400],
     [latDeg |-> 9, latMin |-> 59999, lonDeg |-> 130, lonMin |-> 500, alt |-> -3200]}

GgaCases ==
    [talker : {"GP", "GN"}, pos : Positions, ns : {"N", "S"}, ew : {"E", "W"}]

GgaFields(c) ==
    <<c.talker \o "GGA", "123519.50",
      DegMin(c.pos.latDeg, c.pos.latMin, 2), c.ns,
      DegMin(c.pos.lonDeg, c.pos.lonMin, 3), c.ew,
      "1", "08", "0.9", Metres(c.pos.alt), "M", "46.9", "M", "", "">>

GgaLine(c) == Sentence(Join(GgaFields(c)))

\* the position a case encodes, in 1/Scale units
CaseLat(c) ==
    (IF c.ns = "S" THEN -1 ELSE 1)
        * (c.pos.latDeg * Scale + c.pos.latMin * (Scale \div 60000))

CaseLon(c) ==
    (IF c.ew = "W" THEN -1 ELSE 1)
        * (c.pos.lonDeg * Scale + c.pos.lonMin * (Scale \div 60000))

CaseAlt(c) == c.pos.alt * (Scale \div 1000)

BaseGga ==
    GgaFields([talker |-> "GP", ns |-> "N", ew |-> "E",
               pos |-> [latDeg |-> 48, latMin |-> 7038, lonDeg |-> 11,
                        lonMin |-> 31000, alt |-> 545400]])

BaseGsa ==
    <<"GNGSA", "A", "3", "04", "05", "", "09", "12", "", "", "24", "", "", "", "",
      "2.5", "1.3", "2.1">>

\* a sentence cut off after its first k fields
Truncated(fields, ks) == {SubSeq(fields, 1, k) : k \in ks}

\* a sentence with one of its fields from..to (1-based) replaced
Replaced(fields, from, to, values) ==
    {[fields EXCEPT ![i] = v] : i \in from..to, v \in values}

FieldLists ==
    Truncated(BaseGga, 1..9) \cup Truncated(BaseGsa, {3, 15, 16, 17})
        \cup Replaced(BaseGga, 2, 10, {"", "xxxx"})
        \cup Replaced(BaseGga, 7, 7, {"0", "4", "6", "7", "-1", "-8"})
        \cup Replaced(BaseGga, 4, 4, {"NS", "E"})
        \cup Replaced(BaseGsa, 16, 18, {"", "xxxx"})
        \cup {BaseGsa, [BaseGsa EXCEPT ![1] = "GPGSA"],
              <<"GPRMC", "123519", "A">>, <<"AA", "", "AA">>}

\* lines whose frame is damaged: checksum text that is wrong, not
\* hexadecimal, signed, blank-padded or lower case; no "$", no "*", too short
DamagedLines ==
    UNION {{"$" \o b \o "*" \o Hex2(XorByte[Checksum(b)][1]),
            "$" \o b \o "*ZZ",
            "$" \o b \o "*+" \o Sub(Hex2(Checksum(b)), 2, 2),
            "$" \o b \o "* " \o Sub(Hex2(Checksum(b)), 2, 2),
            "$" \o b \o "*-0",
            "$" \o b \o "*5b",
            "$" \o b \o Hex2(Checksum(b)),
            b \o "*" \o Hex2(Checksum(b))} : b \in {Join(BaseGga), "AA,,AA"}}
        \cup {"", "$GP*17", "$*00"}

NmeaTexts ==
    {GgaLine(c) : c \in GgaCases}
        \cup {Sentence(Join(f)) : f \in FieldLists}
        \cup DamagedLines

\* as sent: terminated by CR LF
NmeaLines == {t \o "\r\n" : t \in NmeaTexts}


(***************************************************************************)
(* GpsDecode: construction, the consumer's calls, the worker thread.       *)
(***************************************************************************)
\* GpsDecode.__init__ (79-84)
GpsNew ==
    /\ rxq = <<>>
    /\ pc = "idle"
    /\ raw = None
    /\ line = ""
    /\ fix = FixInit
    /\ ret = ""
    /\ qs = ""
    /\ gexc = "none"
    /\ nsent = 0

\* no worker: ser_start() has not been called
SerOff ==
    /\ dev = <<>>
    /\ wline = <<>>
    /\ wpc = "off"
    /\ receiving = FALSE
    /\ ser = "none"
    /\ cpc = "idle"
    /\ wrd = <<>>
    /\ wput = <<>>
    /\ closedAt = -1

\* "self.rxq.empty()"
QueueNeverEmpty(q) == FALSE
QueueEmpty(q) == q = <<>>

\* the consumer is between two calls; an uncaught exception has ended it
CanCall ==
    /\ gexc = "none"
    /\ \/ pc \in {"idle", "decoded", "qual"}
       \/ pc = "read" /\ line = ""

\* read() up to "if not self.rxq.empty()" (129-131): on an empty queue it
\* returns "" at once
ReadTest ==
    /\ CanCall
    /\ IF QueueEmpty(rxq)
       THEN pc' = "read" /\ line' = "" /\ raw' = None
       ELSE pc' = "get" /\ UNCHANGED <<line, raw>>
    /\ ret' = ""
    /\ qs' = ""
    /\ UNCHANGED <<rxq, fix, gexc, nsent, ntripVars, serVars>>

\* read() from "self.rxq.get()" on (132-142); Queue.get() waits while the
\* queue is empty
ReadGet ==
    /\ pc = "get"
    /\ rxq # <<>>
    /\ \E r \in {read_item(Head(rxq))} :
        /\ raw' = Some(Head(rxq))
        /\ rxq' = Tail(rxq)
        /\ line' = r.line
        /\ gexc' = r.exc
    /\ pc' = "read"
    /\ UNCHANGED <<fix, ret, qs, nsent, ntripVars, serVars>>

\* decode(line) on the line read() returned (145-172)
Decode ==
    /\ pc = "read"
    /\ gexc = "none"
    /\ line # ""
    /\ \E r \in {decode(fix, line)} :
        /\ fix' = r.fix
        /\ ret' = r.ret
        /\ gexc' = r.exc
    /\ pc' = "decoded"
    /\ UNCHANGED <<rxq, raw, line, qs, nsent, ntripVars, serVars>>

\* qualstr() (183-184)
Qualstr ==
    /\ pc = "decoded"
    /\ gexc = "none"
    /\ LET q == qualstr(fix.quality) IN
        /\ qs' = q.s
        /\ gexc' = q.exc
    /\ pc' = "qual"
    /\ UNCHANGED <<rxq, raw, line, fix, ret, nsent, ntripVars, serVars>>

\* the worker has framed one line sent by the receiver and put it on the
\* queue: "self.rxq.put(...)" (119).  Sentences come about once a second
\* and the consumer polls every millisecond: a line arrives after a read()
\* that found the queue empty.
Feed ==
    /\ nsent < MaxLines
    /\ rxq = <<>>
    /\ gexc = "none"
    /\ pc \in {"idle", "read"}
    /\ raw = None
    /\ \E l \in NmeaLines : rxq' = Append(rxq, l)
    /\ nsent' = nsent + 1
    /\ UNCHANGED <<pc, raw, line, fix, ret, qs, gexc, ntripVars, serVars>>

\* the serial path, byte by byte
SerBytes == {LF, 36, 65}

\* a byte arrives at the serial device
DevRecv ==
    /\ ser = "open"
    /\ nsent < MaxDevBytes
    /\ \E b \in SerBytes : dev' = Append(dev, b)
    /\ nsent' = nsent + 1
    /\ UNCHANGED <<rxq, pc, raw, line, fix, ret, qs, gexc, wline, wpc, receiving,
                   ser, cpc, wrd, wput, closedAt, ntripVars>>

\* "".join(map(chr, bytes))
RECURSIVE ToStr(_)
ToStr(bytes) ==
    IF bytes = <<>> THEN "" ELSE chr(Head(bytes)) \o ToStr(Tail(bytes))

\* "while self.receiving": the next iteration, or the end of the thread
ExitNever(flag) == "poll"
LoopTest(flag) == IF flag THEN "poll" ELSE "done"

\* ser_in (109-122): "while self.receiving"
WorkerTest ==
    /\ wpc = "test"
    /\ wpc' = LoopTest(receiving)
    /\ UNCHANGED <<dev, wline, receiving, ser, cpc, wrd, wput, closedAt,
                   gpsVars, ntripVars>>

\* "if self.ser.inWaiting(): s = self.ser.read(self.ser.in_waiting); line += s";
\* on a device that ser_close() has closed meanwhile inWaiting() raises and
\* ends the thread
WorkerPoll ==
    /\ wpc = "poll"
    /\ IF ser = "closed"
       THEN wpc' = "failed" /\ UNCHANGED <<wline, dev, wrd>>
       ELSE /\ wpc' = "find"
            /\ IF dev # <<>>
               THEN wline' = wline \o dev /\ wrd' = wrd \o dev /\ dev' = <<>>
               ELSE UNCHANGED <<wline, dev, wrd>>
    /\ UNCHANGED <<receiving, ser, cpc, wput, closedAt, gpsVars, ntripVars>>

\* "line = line[n+1:]"
RestFromLf(l, n) == From(l, n)
Rest(l, n) == From(l, n + 1)

\* "n = line.find(ord('\n'))", then put the line and keep the rest, or sleep
WorkerFind ==
    /\ wpc = "find"
    /\ \E n \in {bin_index(wline, LF)} :
       IF n >= 0
       THEN /\ rxq' = Append(rxq, ToStr(Slice(wline, 0, n + 1)))
            /\ wput' = Append(wput, ToStr(Slice(wline, 0, n + 1)))
            /\ wline' = Rest(wline, n)
       ELSE UNCHANGED <<rxq, wline, wput>>
    /\ wpc' = "test"
    /\ UNCHANGED <<dev, receiving, ser, cpc, wrd, closedAt,
                   pc, raw, line, fix, ret, qs, gexc, nsent, ntripVars>>

\* ser_close (96-98) with a device: "if self.ser: self.receiving = False",
\* then the sleep
SerClose ==
    /\ cpc \in {"idle", "done"}
    /\ ser # "none"
    /\ receiving' = FALSE
    /\ closedAt' = IF closedAt < 0 THEN Len(wput) ELSE closedAt
    /\ cpc' = "sleep"
    /\ UNCHANGED <<dev, wline, wpc, ser, wrd, wput, gpsVars, ntripVars>>

\* ser_close (99-100) after the sleep: "self.ser.close()"
SerCloseDevice ==
    /\ cpc = "sleep"
    /\ ser' = "closed"
    /\ cpc' = "done"
    /\ UNCHANGED <<dev, wline, wpc, receiving, wrd, wput, closedAt,
                   gpsVars, ntripVars>>

\* ser_close (96-97) without a device: "if self.ser" fails, nothing is done
SerCloseNoDevice ==
    /\ cpc = "idle"
    /\ ser = "none"
    /\ cpc' = "done"
    /\ UNCHANGED <<dev, wline, wpc, receiving, ser, wrd, wput, closedAt,
                   gpsVars, ntripVars>>

(***************************************************************************)
(* The source table (ntripdecoder.py 206-217, 235-242).                    *)
(***************************************************************************)
\* str.upper() on the letters a-z
UpperChar(c) ==
    IF ord(c) >= 97 /\ ord(c) <= 122 THEN chr(ord(c) - 32) ELSE c

RECURSIVE upper(_)
upper(s) ==
    IF s = "" THEN "" ELSE UpperChar(Sub(s, 1, 1)) \o upper(Sub(s, 2, Len(s)))

\* str.startswith
startswith(s, prefix) == Sub(s, 1, Len(prefix)) = prefix

\* "return data[8], data[1], float(data[9]), float(data[10])", or the
\* values returned when float() raises
NamePosOf(flds, lat, lon) ==
    IF lat.ok /\ lon.ok
    THEN [country |-> flds[9], name |-> flds[2], lat |-> lat.v, lon |-> lon.v]
    ELSE [country |-> "", name |-> "", lat |-> 0, lon |-> 0]

NamePosFields(flds) ==
    IF Len(flds) > 10
    THEN NamePosOf(flds, ParseFloat(flds[10]), ParseFloat(flds[11]))
    ELSE [country |-> "", name |-> "", lat |-> 0, lon |-> 0]

\* get_sourcetable_name_pos (235-242)
get_sourcetable_name_pos(l) == NamePosFields(split(l, ";"))

\* "c = ';%s;' % country.upper() if country else ';'"
FilterText(c) ==
    IF c = None \/ c = Some("") THEN ";" ELSE ";" \o upper(c[1]) \o ";"

\* "line.startswith('STR;') and c in line"
Selected(l, c) == startswith(l, "STR;") /\ IsSubstr(c, l)

SelectLines(lines, c) == SelectSeq(lines, LAMBDA l : Selected(l, c))

\* "self.sources[name] = country, lat, lon"
Store(srcs, e) ==
    [k \in (DOMAIN srcs) \cup {e.name} |->
        IF k = e.name THEN <<e.country, e.lat, e.lon>> ELSE srcs[k]]

\* "for line in self.sourcelines: ..." (214-216)
RECURSIVE StoreAll(_, _, _)
StoreAll(srcs, lines, i) ==
    IF i > Len(lines) THEN srcs
    ELSE StoreAll(Store(srcs, get_sourcetable_name_pos(lines[i])), lines, i + 1)

\* the caster's answers: source table lines with their name, country and
\* position, lines that are cut short or carry text for a coordinate, and
\* lines that are not STR records
Filler == ";f;f;f;f;f;f;"

StrLine(name, ctry, lat, lon) ==
    "STR;" \o name \o Filler \o ctry \o ";" \o lat \o ";" \o lon

GoodLines ==
    {StrLine("AAA", "GBR", "51.500", "-0.120") \o ";0;0;g;none;B;N;0;",
     StrLine("BBB", "gbr", "48.137", "11.575") \o ";0",
     StrLine("CCC", "FRA", "43.600", "1.440")}

BadLines ==
    {"STR;DDD" \o Filler \o "GBR;51.500",
     StrLine("EEE", "GBR", "north", "1.000") \o ";0",
     StrLine("FFF", "FRA", "43.600", "")}

OtherLines ==
    {"SOURCETABLE 200 OK",
     "CAS;c;2101;c;c;0;GBR;51.500;-0.120;0.0.0.0;0;h",
     "ENDSOURCETABLE"}

TableLines == GoodLines \cup BadLines \cup OtherLines

RECURSIVE JoinLines(_)
JoinLines(lines) ==
    IF lines = <<>> THEN "" ELSE Head(lines) \o "\r\n" \o JoinLines(Tail(lines))

\* the response texts: up to MaxTableLines lines, each ended by CR LF
Responses ==
    {JoinLines(ls) : ls \in UNION {[1..n -> TableLines] : n \in 1..MaxTableLines}}

\* the country arguments: none, and a code in every mix of case
Countries == {None, Some("GBR"), Some("gbr"), Some("Gbr"), Some("FRA")}

\* no source table has been asked for
NoTable ==
    /\ resp = None
    /\ country = None
    /\ table = None

\* the streaming loop has not run
NoLoop ==
    /\ written = <<>>
    /\ lexc = "none"

\* get_sourcetable (206-217); receive_text (139-148) has returned the
\* whole response
GetSourcetable ==
    /\ resp # None
    /\ \E c \in Countries :
        /\ country' = c
        /\ \E ls \in {SelectLines(split(resp[1], "\n"), FilterText(c))} :
            /\ sourcelines' = ls
            /\ sources' = StoreAll(<<>>, ls, 1)
    /\ table' = resp
    /\ resp' = None
    /\ UNCHANGED <<rtcmVars, fnVars, loopVars, gpsVars, serVars>>

(***************************************************************************)
(* The module-level functions of ntripdecoder.py, each applied once to an  *)
(* argument: crc24 (73-77), getbits2 (245-252), decode_1006 (280-288).     *)
(***************************************************************************)
\* no function has been called
NoCall ==
    /\ arg = <<>>
    /\ res = None

\* the other objects, untouched by a function call
Idle ==
    /\ net = <<>>
    /\ NtripNew
    /\ NoTable
    /\ NoLoop
    /\ GpsNew
    /\ SerOff

\* byte sequences of up to MaxCrcLen bytes
CrcBytes == {0, 1, 62, RTCM_START, 255}

CrcArgs == UNION {[1..k -> CrcBytes] : k \in 0..MaxCrcLen}

\* crc24(m), and crc24 of m followed by that value as 3 bytes, high byte
\* first, as get_msg sees a frame (173-176)
Residual(m, c) == [crc |-> c, residual |-> crc24(m \o Trailer(c))]

ApplyCrc24 ==
    /\ res = None
    /\ res' = Some(Residual(arg, crc24(arg)))
    /\ UNCHANGED <<arg, rtcmVars, tableVars, loopVars, gpsVars, serVars>>

(***************************************************************************)
(* getbits2 (245-252).  Python integers have no width; a field of up to 38 *)
(* bits does not fit the model's integers, so a number v is held as the    *)
(* pair <<h, l>> with v = h * 2^19 + l and 0 <= l < 2^19.                  *)
(***************************************************************************)
Limb == 2 ^ LimbBits

\* "byt, bit = n // 8, 7 - (n & 7)" and "(a[byt] >> bit) & 1"
BitOf(a, n) == (a[(n \div 8) + 1] \div (2 ^ (7 - (n % 8)))) % 2

\* "res = (res << 1) | bit"
ShiftIn(r, b) == <<r[1] * 2 + (r[2] * 2) \div Limb, (r[2] * 2 + b) % Limb>>

\* "for n in range(oset, oset+nbits)"
RECURSIVE GetBitsFrom(_, _, _, _)
GetBitsFrom(a, n, last, r) ==
    IF n > last THEN r
    ELSE GetBitsFrom(a, n + 1, last, ShiftIn(r, BitOf(a, n)))

\* "res & (1 << (nbits - 1))"
TopBitSet(r, nbits) ==
    IF nbits > LimbBits
    THEN (r[1] \div (2 ^ (nbits - 1 - LimbBits))) % 2 = 1
    ELSE (r[2] \div (2 ^ (nbits - 1))) % 2 = 1

\* "res - (1 << nbits)"
MinusPow(r, nbits) ==
    IF nbits >= LimbBits
    THEN <<r[1] - 2 ^ (nbits - LimbBits), r[2]>>
    ELSE <<r[1] + ((r[2] - 2 ^ nbits) \div Limb), (r[2] - 2 ^ nbits) % Limb>>

\* the number as read, without the test of its top bit
SignExtendNever(r, nbits) == r

\* "if res & (1 << (nbits - 1)): res = res - (1 << nbits)"
SignExtend(r, nbits) == IF TopBitSet(r, nbits) THEN MinusPow(r, nbits) ELSE r

\* a[byt] raises IndexError when the field runs past the end of a
getbits2(a, oset, nbits) ==
    IF (oset + nbits - 1) \div 8 >= Len(a)
    THEN [exc |-> "IndexError", v |-> <<0, 0>>]
    ELSE [exc |-> "none",
          v |-> SignExtend(GetBitsFrom(a, oset, oset + nbits - 1, <<0, 0>>), nbits)]

\* the numbers a field of w bits can hold: -2^(w-1) .. 2^(w-1)-1
InRange(w, v) ==
    IF w > LimbBits
    THEN v[1] >= -(2 ^ (w - 1 - LimbBits)) /\ v[1] <= 2 ^ (w - 1 - LimbBits) - 1
    ELSE \/ v[1] = 0 /\ v[2] < 2 ^ (w - 1)
         \/ v[1] = -1 /\ v[2] >= Limb - 2 ^ (w - 1)

\* a sender writing v into w bits: bit k of the field, counted from its
\* most significant bit, is floor(v / 2^(w-1-k)) mod 2
TwosBit(v, w, k) ==
    IF w - 1 - k >= LimbBits
    THEN (v[1] \div (2 ^ (w - 1 - k - LimbBits))) % 2
    ELSE (v[2] \div (2 ^ (w - 1 - k))) % 2

\* bit n of a buffer that holds the field at bit offset oset and the bit
\* pad everywhere else
FieldBit(n, oset, w, v, pad) ==
    IF n >= oset /\ n < oset + w THEN TwosBit(v, w, n - oset) ELSE pad

FieldByte(i, oset, w, v, pad) ==
      FieldBit(8 * i, oset, w, v, pad) * 128
    + FieldBit(8 * i + 1, oset, w, v, pad) * 64
    + FieldBit(8 * i + 2, oset, w, v, pad) * 32
    + FieldBit(8 * i + 3, oset, w, v, pad) * 16
    + FieldBit(8 * i + 4, oset, w, v, pad) * 8
    + FieldBit(8 * i + 5, oset, w, v, pad) * 4
    + FieldBit(8 * i + 6, oset, w, v, pad) * 2
    + FieldBit(8 * i + 7, oset, w, v, pad)

FieldBuffer(oset, w, v, pad) ==
    [i \in 1..((MaxOffset + MaxWidth) \div 8 + 2) |->
        FieldByte(i - 1, oset, w, v, pad)]

\* sample numbers: the ends of the range of every width, the numbers
\* around 0, and mixed bit patterns
HighSamples(w) ==
    {-1, 0, 5, -6, 74565} \cup
    (IF w > LimbBits
     THEN {-(2 ^ (w - 1 - LimbBits)), 2 ^ (w - 1 - LimbBits) - 1}
     ELSE {})

LowSamples(w) ==
    {0, 1, Limb - 1, Limb - 2, 349525} \cup
    (IF w <= LimbBits THEN {2 ^ (w - 1) - 1, Limb - 2 ^ (w - 1)} ELSE {})

FieldValues(w) ==
    {v \in HighSamples(w) \X LowSamples(w) : InRange(w, v)}

BitsArgs ==
    UNION {{[a |-> FieldBuffer(o, w, v, pad), oset |-> o, nbits |-> w,
             v |-> v, pad |-> pad] :
                v \in FieldValues(w), o \in 0..MaxOffset, pad \in {0, 1}} :
           w \in 1..MaxWidth}

ApplyGetbits2 ==
    /\ res = None
    /\ res' = Some(getbits2(arg.a, arg.oset, arg.nbits))
    /\ UNCHANGED <<arg, rtcmVars, tableVars, loopVars, gpsVars, serVars>>

(***************************************************************************)
(* decode_1006 (280-288) and xyz_llh (255-277).  The ECEF coordinates are  *)
(* kept as the integers read from the message (units of 0.0001 m); the     *)
(* floating-point iteration of xyz_llh (258-276) is not computed: its      *)
(* result is the record that names the point converted, and whether the    *)
(* loop at 270 ends is left open (for points near the centre of the earth, *)
(* such as 0.0001 m on each axis, h never settles within 1.0e-6).          *)
(***************************************************************************)
Zero == <<0, 0>>

\* "if not (x or y or z): return 0, 0, 0"
AllZero(x, y, z) == x = Zero /\ y = Zero /\ z = Zero

\* "p = math.sqrt(x*x + y*y)" is 0.0 on the polar axis; then h = p/cs - N
\* is -N and "N / (N + h)" at 272 divides by zero
OnAxis(x, y) == x = Zero /\ y = Zero

xyz_llh(x, y, z) ==
    IF AllZero(x, y, z)
    THEN [exc |-> "none", kind |-> "zero", x |-> Zero, y |-> Zero, z |-> Zero]
    ELSE IF OnAxis(x, y)
    THEN [exc |-> "ZeroDivisionError", kind |-> "", x |-> x, y |-> y, z |-> z]
    ELSE [exc |-> "none", kind |-> "llh", x |-> x, y |-> y, z |-> z]

Raised(e) == [exc |-> e, kind |-> "", x |-> Zero, y |-> Zero, z |-> Zero]

\* "x = getbits2(...) * 0.0001" three times, then "res = xyz_llh(x, y, z)"
ConvertFields(x, y, z) ==
    IF x.exc # "none" THEN Raised(x.exc)
    ELSE IF y.exc # "none" THEN Raised(y.exc)
    ELSE IF z.exc # "none" THEN Raised(z.exc)
    ELSE xyz_llh(x.v, y.v, z.v)

\* "if msg_num == 1005 or msg_num == 1006"
IsStation(m) == m.v = <<0, 1005>> \/ m.v = <<0, 1006>>

Decode1006Of(tail, m) ==
    IF m.exc # "none" THEN Raised(m.exc)
    ELSE IF IsStation(m)
    THEN ConvertFields(getbits2(tail, 34, 38), getbits2(tail, 74, 38),
                       getbits2(tail, 114, 38))
    ELSE xyz_llh(Zero, Zero, Zero)

\* "msg_num = getbits2(data[3:], 0, 12)"
Decode1006Tail(tail) == Decode1006Of(tail, getbits2(tail, 0, 12))

decode_1006(frame) == Decode1006Tail(From(frame, 3))

\* the messages a caster sends: a station message with its number in bits
\* 0-11 and the coordinates in bits 34-71, 74-111 and 114-151, the other
\* bits all 0 or all 1, cut to any payload length
StationBit(n, m) ==
    IF n < 12 THEN TwosBit(<<0, m.num>>, 12, n)
    ELSE IF n >= 34 /\ n < 72 THEN TwosBit(m.x, 38, n - 34)
    ELSE IF n >= 74 /\ n < 112 THEN TwosBit(m.y, 38, n - 74)
    ELSE IF n >= 114 /\ n < 152 THEN TwosBit(m.z, 38, n - 114)
    ELSE m.pad

StationByte(i, m) ==
      StationBit(8 * i, m) * 128
    + StationBit(8 * i + 1, m) * 64
    + StationBit(8 * i + 2, m) * 32
    + StationBit(8 * i + 3, m) * 16
    + StationBit(8 * i + 4, m) * 8
    + StationBit(8 * i + 5, m) * 4
    + StationBit(8 * i + 6, m) * 2
    + StationBit(8 * i + 7, m)

StationPayload(m) == [i \in 1..m.len |-> StationByte(i - 1, m)]

MsgNums == {1005, 1006, 1004, 0}

Coords == {Zero, <<-1, Limb - 1>>, <<74386, 349525>>, <<-262144, 0>>}

PayloadLens == {0, 1, 2, 15, 16, StationLen, StationLen + 1}

Messages ==
    [num : MsgNums, x : Coords, y : Coords, z : Coords, pad : {0, 1},
     len : PayloadLens]

\* the call argument: the frame as get_msg emits it (169-177), with the
\* message it was made from
EmittedFrame(m, f) ==
    [data |-> get_msg(f).d, num |-> m.num, x |-> m.x, y |-> m.y, z |-> m.z,
     len |-> m.len]

DecodeArgs == {EmittedFrame(m, Frame(StationPayload(m))) : m \in Messages}

\* "while abs(h-h_old) > 1.0e-6" (270): the call returns, or never does
Outcomes(r) ==
    IF r.kind = "llh"
    THEN {Some(r), Some([r EXCEPT !.exc = "no return", !.kind = ""])}
    ELSE {Some(r)}

ApplyDecode1006 ==
    /\ res = None
    /\ res' \in Outcomes(decode_1006(arg.data))
    /\ UNCHANGED <<arg, rtcmVars, tableVars, loopVars, gpsVars, serVars>>

(***************************************************************************)
(* get_msg (163-184) applied to a frame whose header carries any value in  *)
(* the six high bits of byte 1, with the CRC of that header and payload.   *)
(***************************************************************************)
\* header with r in the high six bits of byte 1 and the 10-bit length n
ReservedHeader(r, n) == <<RTCM_START, r * 4 + n \div 256, n % 256>>

ReservedFrame(h) == h \o Trailer(crc24(h))

\* what may follow the frame in the accumulator
After == {<<>>, <<65>>, <<RTCM_START, 0>>}

HeaderCall(r, f, t) == [data |-> f \o t, frame |-> f, tail |-> t, reserved |-> r]

HeaderArgs ==
    {HeaderCall(r, ReservedFrame(ReservedHeader(r, Len(p)) \o p), t) :
        r \in 0..(2 ^ ReservedBits - 1), p \in Payloads, t \in After}

ApplyGetMsg ==
    /\ res = None
    /\ res' = Some(get_msg(arg.data))
    /\ UNCHANGED <<arg, rtcmVars, tableVars, loopVars, gpsVars, serVars>>

(***************************************************************************)
(* degmin_deg (gpsdecoder.py 69-75) applied to any text and any hemisphere *)
(* argument.  Each text comes with the degrees it encodes, in 1/60000      *)
(* degree, when read with 2 and with 3 degree digits.                      *)
(***************************************************************************)
DegMinTexts ==
    {[dm |-> "4807.038", two |-> 2887038, three |-> 28807038],
     [dm |-> "01131.000", two |-> 191000, three |-> 691000],
     [dm |-> "1234", two |-> 754000, three |-> 7384000],
     [dm |-> "0000.000", two |-> 0, three |-> 0],
     [dm |-> "480", two |-> 0, three |-> 0],
     [dm |-> "", two |-> 0, three |-> 0]}

Hemispheres ==
    {"N", "S", "E", "W", "", "NS", "EW", "SE", "NSEW", "WE", "X", "n"}

DegMinArgs ==
    {[dm |-> t.dm, nsew |-> h, two |-> t.two, three |-> t.three] :
        t \in DegMinTexts, h \in Hemispheres}

ApplyDegminDeg ==
    /\ res = None
    /\ res' = Some(degmin_deg(Some(arg.dm), Some(arg.nsew)))
    /\ UNCHANGED <<arg, rtcmVars, tableVars, loopVars, gpsVars, serVars>>

(***************************************************************************)
(* The streaming loop of rtklient.py (148-155): one receive_rtcm call and  *)
(* what is done with its result.  The position of the receiver is the one  *)
(* the loop starts with.                                                   *)
(***************************************************************************)
\* msg_type (ntripdecoder.py 220-224)
msg_type(m) ==
    IF m[1] # RTCM_START THEN 0 ELSE m[4] * 16 + m[5] \div 16

\* "if rtcm and gps.lat and gps.lon"
ToReceiver(rtcm, f) == rtcm # <<>> /\ f.lat # 0 /\ f.lon # 0

\* "if msg_type == 1005 or msg_type == 1006: ... decode_1006(rtcm)": how
\* the call ends
DecodeEnds(rtcm, t) ==
    IF t = 1005 \/ t = 1006
    THEN {o[1].exc : o \in Outcomes(decode_1006(rtcm))}
    ELSE {"none"}

\* "gps.ser_out(rtcm)"
ser_out(w, rtcm) == Append(w, rtcm)

\* lines 150-155
StreamRtcm(part) ==
    /\ lexc = "none"
    /\ nexc = "none"
    /\ ReceiveRtcm(part)
    /\ IF ToReceiver(d', fix)
       THEN \E e \in DecodeEnds(d', msg_type(d')) :
               /\ lexc' = e
               /\ written' = IF e = "none" THEN ser_out(written, d') ELSE written
       ELSE UNCHANGED loopVars
    /\ UNCHANGED <<tableVars, fnVars, gpsVars, serVars>>

\* an iteration in which poll() returns data
LoopData ==
    /\ Len(outs) < MaxCalls
    /\ net # <<>>
    /\ Len(Head(net)) <= BLOCK_MAX
    /\ StreamRtcm(Head(net))
    /\ net' = Tail(net)

\* an iteration in which poll() returns None
LoopIdle ==
    /\ Len(outs) < MaxCalls
    /\ StreamRtcm(<<>>)
    /\ UNCHANGED net

\* the caster's answer to the request, "ICY 200 OK" CR LF
Banner == <<73, 67, 89, 32, 50, 48, 48, 32, 79, 75, CR, LF>>

WholeStation ==
    [num |-> 1005, x |-> <<74386, 349525>>, y |-> <<-1, Limb - 1>>,
     z |-> <<74386, 349525>>, pad |-> 0, len |-> StationLen]

\* what the connection carries: the streams of the reassembler, the answer
\* followed by a frame, and station messages, whole and cut short
LoopScripts ==
    Scripts \cup
    {<<Banner \o Frame(<<>>)>>,
     <<Banner, Frame(StationPayload(WholeStation))>>,
     <<Frame(<<62, 208>>)>>}

\* the position found before the loop, or none (0, 0)
LoopFixes == {FixInit, [FixInit EXCEPT !.lat = 2887038, !.lon = 691000]}

(***************************************************************************)
(* Specifications.                                                         *)
(***************************************************************************)
\* the caster path: one connection, any stream, any calls
NtripInit ==
    net \in Scripts /\ NtripNew /\ NoTable /\ NoCall /\ NoLoop /\ GpsNew /\ SerOff

SpecNtrip == NtripInit /\ [][NtripNext]_vars

\* the NMEA decoder: lines arrive on the queue, the consumer polls
GpsInit == net = <<>> /\ NtripNew /\ NoTable /\ NoCall /\ NoLoop /\ GpsNew /\ SerOff

GpsNext == Feed \/ ReadTest \/ ReadGet \/ Decode \/ Qualstr

SpecGps == GpsInit /\ [][GpsNext]_vars

\* a connection that keeps delivering: every poll() returns one block
BurstInit == net = <<>> /\ NtripNew /\ NoTable /\ NoCall /\ NoLoop /\ GpsNew /\ SerOff

BurstNext == ReceiveRtcmBlock \/ ReceiveRtcmQuiet

SpecBurst == BurstInit /\ [][BurstNext]_vars

\* crc24 applied to any byte sequence
CrcInit == arg \in CrcArgs /\ res = None /\ Idle

CrcNext == ApplyCrc24

SpecCrc == CrcInit /\ [][CrcNext]_vars

\* getbits2 applied to a field of any width at any bit offset
BitsInit == arg \in BitsArgs /\ res = None /\ Idle

BitsNext == ApplyGetbits2

SpecBits == BitsInit /\ [][BitsNext]_vars

\* decode_1006 applied to any frame get_msg emits
DecodeInit == arg \in DecodeArgs /\ res = None /\ Idle

DecodeNext == ApplyDecode1006

SpecDecode == DecodeInit /\ [][DecodeNext]_vars

\* get_msg applied to a frame with any reserved bits
HeaderInit == arg \in HeaderArgs /\ res = None /\ Idle

HeaderNext == ApplyGetMsg

SpecHeader == HeaderInit /\ [][HeaderNext]_vars

\* degmin_deg applied to any text and hemisphere
DegMinInit == arg \in DegMinArgs /\ res = None /\ Idle

DegMinNext == ApplyDegminDeg

SpecDegMin == DegMinInit /\ [][DegMinNext]_vars

\* the streaming loop: NtripDecode and GpsDecode as constructed, a position
LoopInit ==
    /\ net \in LoopScripts
    /\ NtripNew
    /\ NoTable
    /\ NoCall
    /\ NoLoop
    /\ rxq = <<>>
    /\ pc = "idle"
    /\ raw = None
    /\ line = ""
    /\ fix \in LoopFixes
    /\ ret = ""
    /\ qs = ""
    /\ gexc = "none"
    /\ nsent = 0
    /\ SerOff

LoopNext == LoopData \/ LoopIdle

SpecLoop == LoopInit /\ [][LoopNext]_vars

\* the source table: one request, any response, any country argument
TableInit ==
    /\ net = <<>>
    /\ NtripNew
    /\ resp \in {Some(r) : r \in Responses}
    /\ country = None
    /\ table = None
    /\ NoCall
    /\ NoLoop
    /\ GpsNew
    /\ SerOff

TableNext == GetSourcetable

SpecTable == TableInit /\ [][TableNext]_vars

\* the serial path: after ser_open() and ser_start(), worker and consumer
\* run concurrently; or the device is open and no worker was started; or
\* there is no device at all
SerialStarts ==
    {[ser |-> "open", wpc |-> "test", receiving |-> TRUE],
     [ser |-> "open", wpc |-> "off", receiving |-> FALSE],
     [ser |-> "none", wpc |-> "off", receiving |-> FALSE]}

SerialInit ==
    /\ net = <<>>
    /\ NtripNew
    /\ NoTable
    /\ NoCall
    /\ NoLoop
    /\ GpsNew
    /\ dev = <<>>
    /\ wline = <<>>
    /\ \E st \in SerialStarts :
        /\ ser = st.ser
        /\ wpc = st.wpc
        /\ receiving = st.receiving
    /\ cpc = "idle"
    /\ wrd = <<>>
    /\ wput = <<>>
    /\ closedAt = -1

SerialNext ==
    DevRecv \/ WorkerTest \/ WorkerPoll \/ WorkerFind
        \/ SerClose \/ SerCloseDevice \/ SerCloseNoDevice
        \/ ReadTest \/ ReadGet

SpecSerial == SerialInit /\ [][SerialNext]_vars

\* the same, with the scheduler giving the worker thread its turns
SpecSerialFair ==
    SpecSerial /\ WF_vars(WorkerTest) /\ WF_vars(WorkerPoll) /\ WF_vars(WorkerFind)


(***************************************************************************)
(* Properties of the reassembler.                                          *)
(***************************************************************************)
IsPrefix(p, s) == Len(p) <= Len(s) /\ SubSeq(s, 1, Len(p)) = p

\* a returned value that starts with the preamble is a whole, CRC-clean frame
EmittedFrameOk(m) ==
    (m # <<>> /\ m[1] = RTCM_START) =>
        /\ Len(m) >= 6
        /\ LengthWord(m) <= MaxRtcmLen
        /\ Len(m) = LengthWord(m) + 6
        /\ crc24(m) = 0

\* C1: every value returned by receive_rtcm()/get_msg() that starts with
\* 0xD3 has length L+6 for the L <= 1024 declared in its bytes 1-2 and a
\* CRC24 residual of 0; a candidate that fails the check is never returned.
C1_EmittedFramesValid ==
    /\ EmittedFrameOk(d)
    /\ \A i \in 1..Len(outs) : EmittedFrameOk(outs[i])

C1_Witness ==
    /\ d \in ValidFrames
    /\ Len(d) > 6
    /\ data # <<>>

\* C2: from an empty accumulator, a CRC-valid frame delivered in two polls
\* (any split point) is emitted once, by the second call, byte-identical to
\* what one poll with the whole frame emits, and the accumulator is empty
\* afterwards in both cases.
C2_SplitFrameEmittedOnce ==
    /\ (Len(parts) = 1 /\ parts[1] \in ValidFrames) =>
           (outs[1] = parts[1] /\ data = <<>>)
    /\ (/\ Len(parts) = 2
        /\ parts[1] # <<>>
        /\ parts[2] # <<>>
        /\ parts[1] \o parts[2] \in ValidFrames) =>
           (outs[1] = <<>> /\ outs[2] = parts[1] \o parts[2] /\ data = <<>>)

C2_Witness ==
    /\ Len(parts) = 2
    /\ Len(parts[1]) = 5
    /\ parts[2] # <<>>
    /\ parts[1] \o parts[2] \in ValidFrames
    /\ outs = <<<<>>, parts[1] \o parts[2]>>

\* C3: when the accumulator starts with a complete frame that is a valid
\* frame with one payload bit flipped, get_msg() returns empty and leaves
\* the accumulator empty, the bytes after the corrupted frame included.
C3_BitFlipScrubs ==
    \A f \in FlippedFrames :
        IsPrefix(f, pre) => (d = <<>> /\ data = <<>>)

C3_Witness ==
    \E f \in FlippedFrames :
        /\ IsPrefix(f, pre)
        /\ Len(pre) > Len(f)
        /\ d = <<>>
        /\ data = <<>>

\* C4: when the accumulator starts with 0xD3, holds at least 3 bytes and
\* declares a length above 1024, get_msg() returns empty, leaves the
\* accumulator empty whatever follows the header, and raises nothing.
C4_BadLengthScrubs ==
    /\ nexc = "none"
    /\ (Len(pre) >= 3 /\ pre[1] = RTCM_START /\ LengthWord(pre) > MaxRtcmLen) =>
           (d = <<>> /\ data = <<>>)

C4_Witness ==
    /\ Len(pre) > 3
    /\ pre[1] = RTCM_START
    /\ LengthWord(pre) > MaxRtcmLen
    /\ d = <<>>
    /\ data = <<>>
    /\ Len(outs) >= 2


(***************************************************************************)
(* Properties of the NMEA decoder.                                         *)
(***************************************************************************)
HexDigitChars == "0123456789abcdefABCDEF"

IsHexDigit(c) == \E i \in 1..Len(HexDigitChars) : Sub(HexDigitChars, i, i) = c

\* the checksum rule as the specification words it: at least 9 characters,
\* "$" first, "*" third from last, then two hexadecimal digits whose value
\* is the XOR of the characters strictly between "$" and "*"
ValidNmea(l) ==
    /\ Len(l) >= 9
    /\ Ch(l, 0) = "$"
    /\ Ch(l, Len(l) - 3) = "*"
    /\ IsHexDigit(Ch(l, Len(l) - 2))
    /\ IsHexDigit(Ch(l, Len(l) - 1))
    /\ Checksum(Sub(l, 2, Len(l) - 3))
           = 16 * DigitVal(Ch(l, Len(l) - 2)) + DigitVal(Ch(l, Len(l) - 1))

\* C5: read() on a dequeued line that fails the structural test or the
\* checksum test (a line whose two characters after "*" are not hexadecimal
\* digits included) returns the empty line, raises nothing, takes exactly
\* that item off the queue and leaves the fix record as it was.
C5_InvalidLineDiscarded ==
    [][(/\ pc = "get"
        /\ pc' = "read"
        /\ rxq # <<>>
        /\ ~ValidNmea(strip(Head(rxq)))) =>
           (line' = "" /\ gexc' = "none" /\ rxq' = Tail(rxq) /\ fix' = fix)]_vars

\* C6: read() returns a non-empty line if and only if the stripped dequeued
\* line has at least 9 characters, starts with "$", has "*" third from last
\* and the XOR of the characters between them equals the value of the two
\* hexadecimal digits after "*"; the line returned is the stripped line.
C6_NonEmptyIffValid ==
    (pc = "read" /\ raw # None) =>
        /\ (line # "") <=> ValidNmea(strip(raw[1]))
        /\ (line # "") => (line = strip(raw[1]))

\* C7: with the worker as the only producer and one consumer, read() never
\* waits in Queue.get(): whenever it is about to take an item, whatever the
\* worker did in between, the queue holds one; on an empty queue it has
\* returned the empty line without getting there.
C7_ReadNeverWaits ==
    /\ (pc = "get") => (rxq # <<>>)
    /\ (pc = "read" /\ raw = None) => (line = "")

C7_Witness ==
    /\ pc = "get"
    /\ wpc = "find"
    /\ Len(rxq) = 1
    /\ wline # <<>>
    /\ bin_index(wline, LF) >= 0

\* the well-formed GGA lines of the receiver with the position each encodes
GgaTable == {<<GgaLine(c), c>> : c \in GgaCases}

Missing(fields, fmt, name) == getval(fields, fmt, name) = None

\* C9: for every line read() can return, decode() completes without
\* raising, and a GSA or GGA sentence too short to hold a numeric field has
\* the default in it (0 for integers, 99.99 for DOP, 0.0 for altitude).
C9_DecodeNeverRaises ==
    (pc = "decoded") =>
        /\ gexc = "none"
        /\ LET fields == split(Sub(line, 1, Len(line) - 3), ",") IN
            /\ (Len(fields) >= 3 /\ IsGSA(fields[1])) =>
                /\ Missing(fields, GSA_S, "PDOP") => (fix.pdop = DefaultDop)
                /\ Missing(fields, GSA_S, "HDOP") => (fix.hdop = DefaultDop)
                /\ Missing(fields, GSA_S, "VDOP") => (fix.vdop = DefaultDop)
            /\ (Len(fields) >= 3 /\ IsGGA(fields[1])) =>
                /\ Missing(fields, GGA_S, "quality") => (fix.quality = 0)
                /\ Missing(fields, GGA_S, "nsats") => (fix.nsats = 0)
                /\ Missing(fields, GGA_S, "HDOP") => (fix.hdop = DefaultDop)
                /\ Missing(fields, GGA_S, "alt") => (fix.alt = 0)

\* C10: after any decode() calls, qualstr() returns the name at the stored
\* quality code's position in the table or the fallback text (the code's is
\* "?"); for every code outside 0..6, too large or negative, it returns the
\* fallback and raises nothing.
C10_QualstrTotal ==
    (pc = "qual") =>
        /\ gexc = "none"
        /\ (fix.quality \in 0..6) => (qs = qualstrs[fix.quality + 1])
        /\ (fix.quality \notin 0..6) => (qs = "?")


(***************************************************************************)
(* Properties of the serial path.                                          *)
(***************************************************************************)
\* an item ends with a line feed and holds no other
OneLine(item) ==
    /\ Len(item) >= 1
    /\ Ch(item, Len(item) - 1) = "\n"
    /\ \A i \in 1..(Len(item) - 1) : Sub(item, i, i) # "\n"

RECURSIVE Concat(_)
Concat(items) ==
    IF items = <<>> THEN "" ELSE Head(items) \o Concat(Tail(items))

\* the items put and not yet taken
Pending(put, n) == SubSeq(put, Len(put) - n + 1, Len(put))

\* C11: on the serial path every item the worker has put ends with a line
\* feed and holds no other; the items put so far, in order, followed by the
\* worker's line buffer are the bytes read from the device so far; and the
\* consumer takes the items in put order: the queue holds the latest items
\* put, and the item last taken is the one put just before them.
C11_BytesInOrder ==
    /\ \A i \in 1..Len(wput) : OneLine(wput[i])
    /\ Concat(wput) \o ToStr(wline) = ToStr(wrd)
    /\ Len(rxq) <= Len(wput)
    /\ rxq = Pending(wput, Len(rxq))
    /\ (raw # None) => (Len(wput) > Len(rxq) /\ raw[1] = wput[Len(wput) - Len(rxq)])

C11_Witness ==
    /\ Len(wput) = 2
    /\ Len(wput[1]) > 1
    /\ rxq = <<>>
    /\ raw = Some(wput[2])
    /\ wline # <<>>

\* the worker thread has ended: the loop test failed, or inWaiting() raised
WorkerEnded == wpc \in {"done", "failed"}

\* C12: once ser_close() has cleared the flag, a worker that tests the flag
\* starts no further iteration and an ended worker stays ended; at most one
\* line more is put than had been when the flag was cleared; a started
\* worker eventually ends when it is given its turns; and with no device
\* ser_close() touches neither flag, device nor worker, as it leaves a
\* worker that was never started or has ended where it is.
C12_CloseStopsWorker ==
    /\ [][(wpc = "test" /\ ~receiving /\ wpc' # wpc) => (wpc' = "done")]_vars
    /\ [][(WorkerEnded \/ wpc = "off") => (wpc' = wpc)]_vars
    /\ []((closedAt >= 0) => (Len(wput) <= closedAt + 1))
    /\ [][(ser = "none") =>
            (ser' = "none" /\ receiving' = receiving /\ dev' = dev /\ wpc' = wpc)]_vars
    /\ (closedAt >= 0 /\ wpc # "off") ~> WorkerEnded

C12_Witness ==
    /\ closedAt >= 0
    /\ Len(wput) = closedAt + 1
    /\ wpc = "done"
    /\ cpc = "done"
    /\ ser = "closed"

(***************************************************************************)
(* C13, C14: the source table.                                             *)
(***************************************************************************)
\* the STR lines of the received table that the country argument selects,
\* comparing without regard to case
TableLinesOf(t) == split(t, "\n")

Wanted(l, c) ==
    /\ startswith(l, "STR;")
    /\ (c # None => IsSubstr(";" \o upper(c[1]) \o ";", upper(l)))

\* a line with at least 11 fields whose latitude and longitude are numbers
WellFormedFields(flds) ==
    /\ Len(flds) >= 11
    /\ ParseFloat(flds[10]).ok
    /\ ParseFloat(flds[11]).ok

WellFormed(l) == WellFormedFields(split(l, ";"))

EntryOfFields(flds) ==
    <<flds[9], ParseFloat(flds[10]).v, ParseFloat(flds[11]).v>>

NameOf(l) == split(l, ";")[2]

\* C13: after get_sourcetable() a selected line that is malformed has added
\* no entry to sources under any key, and every selected well-formed line
\* has its entry name -> (country, lat, lon).
C13_MalformedSkipped ==
    (table # None) =>
        /\ DOMAIN sources =
            {NameOf(sourcelines[i]) :
                i \in {j \in 1..Len(sourcelines) : WellFormed(sourcelines[j])}}
        /\ \A i \in 1..Len(sourcelines) :
            WellFormed(sourcelines[i]) =>
                sources[NameOf(sourcelines[i])] =
                    EntryOfFields(split(sourcelines[i], ";"))

\* C13, the part that holds: every selected well-formed line has its entry.
C13_WellFormedStored ==
    (table # None) =>
        \A i \in 1..Len(sourcelines) :
            WellFormed(sourcelines[i]) =>
                /\ NameOf(sourcelines[i]) \in DOMAIN sources
                /\ sources[NameOf(sourcelines[i])] =
                    EntryOfFields(split(sourcelines[i], ";"))

\* C14: the lines kept are the STR lines that contain the country code in
\* any case of the argument and of the line; with no argument every STR
\* line is kept.
C14_FilterCaseInsensitive ==
    (table # None) =>
        sourcelines =
            SelectSeq(TableLinesOf(table[1]), LAMBDA l : Wanted(l, country))

\* C14, the part that holds: with no argument every STR line is kept, and
\* the case of the argument makes no difference.
C14_NoFilterKeepsAll ==
    (table # None /\ country = None) =>
        sourcelines =
            SelectSeq(TableLinesOf(table[1]), LAMBDA l : startswith(l, "STR;"))

(***************************************************************************)
(* C15, C16: what the accumulator holds between receive_rtcm calls.        *)
(***************************************************************************)
\* the largest frame get_msg accepts, and with it one full poll() result
MaxFrameLen == MaxRtcmLen + 6

AccLimit == MaxFrameLen + BLOCK_MAX

\* C15: after every receive_rtcm call the accumulator is no longer than a
\* fixed bound, here one pending frame of the largest size and one full
\* poll() result, whatever the stream carries.
C15_AccumulatorBounded == Len(data) <= AccLimit

\* the 0-based offsets of s that hold the preamble byte
Starts(s) == {o \in 0..(Len(s) - 1) : s[o + 1] = RTCM_START}

DeclaredLen(s, o) == s[o + 2] * 256 + s[o + 3]

\* a complete frame with CRC residual 0 starts at offset o of s
ValidFrameAt(s, o) ==
    /\ o + 3 <= Len(s)
    /\ s[o + 1] = RTCM_START
    /\ DeclaredLen(s, o) <= MaxRtcmLen
    /\ o + DeclaredLen(s, o) + 6 <= Len(s)
    /\ crc24(SubSeq(s, o + 1, o + DeclaredLen(s, o) + 6)) = 0

\* C16: between receive_rtcm calls the accumulator never holds two complete
\* CRC-valid frames, one after the other.
C16_AtMostOneFrame ==
    \A i \in Starts(data) : \A j \in Starts(data) :
        (ValidFrameAt(data, i) /\ ValidFrameAt(data, j))
            => j < i + DeclaredLen(data, i) + 6

(***************************************************************************)
(* C17: the CRC residual.                                                  *)
(***************************************************************************)
\* C17: for every byte sequence m, crc24 of m followed by the 3 big-endian
\* bytes of crc24(m) is 0, and crc24(m) lies in 0..2^24-1.
C17_ResidualZero ==
    (res # None) =>
        /\ res[1].residual = 0
        /\ res[1].crc \in 0..(2 ^ 24 - 1)

C17_Witness ==
    /\ res # None
    /\ Len(arg) = MaxCrcLen
    /\ res[1].crc > 65535
    /\ res[1].residual = 0

(***************************************************************************)
(* C18: getbits2 reads back what was written.                              *)
(***************************************************************************)
\* C18: for every width 1..38, every bit offset and every v in the range
\* of the width, getbits2 of a buffer holding v in two's complement at that
\* offset returns v, whatever the other bits of the buffer are, and the
\* result lies in -2^(w-1) .. 2^(w-1)-1.
C18_RoundTrip ==
    (res # None) =>
        /\ res[1].exc = "none"
        /\ res[1].v = arg.v
        /\ InRange(arg.nbits, res[1].v)

C18_Witness ==
    /\ res # None
    /\ arg.nbits = MaxWidth
    /\ arg.oset % 8 = 3
    /\ arg.pad = 1
    /\ arg.v[1] < -1
    /\ arg.v[2] = 349525
    /\ res[1].v = arg.v

(***************************************************************************)
(* C19: decode_1006 on the frames get_msg emits.                           *)
(***************************************************************************)
\* what the conversion of the point (x, y, z) returns
Converted(x, y, z) ==
    IF AllZero(x, y, z)
    THEN [exc |-> "none", kind |-> "zero", x |-> Zero, y |-> Zero, z |-> Zero]
    ELSE [exc |-> "none", kind |-> "llh", x |-> x, y |-> y, z |-> z]

\* C19: for every emitted frame decode_1006 returns without raising:
\* (0,0,0) when the message number is neither 1005 nor 1006, otherwise the
\* conversion of the three 38-bit fields at payload bits 34, 74 and 114.
C19_DecodeTotal ==
    (res # None) =>
        /\ arg.data # <<>>
        /\ res[1].exc = "none"
        /\ (arg.len >= 2 /\ arg.num \notin {1005, 1006}) => res[1].kind = "zero"
        /\ (arg.len >= StationLen /\ arg.num \in {1005, 1006})
            => res[1] = Converted(arg.x, arg.y, arg.z)

\* C19, the part that holds: a message that is not 1005 or 1006 gives
\* (0,0,0), and a whole station message gives the conversion of its three
\* fields whenever the call returns.
C19_DecodedWhenWhole ==
    (res # None) =>
        /\ arg.data # <<>>
        /\ (arg.len >= 2 /\ arg.num \notin {1005, 1006})
            => res[1] = Converted(Zero, Zero, Zero)
        /\ (arg.len >= StationLen /\ arg.num \in {1005, 1006}
                /\ res[1].exc = "none")
            => res[1] = Converted(arg.x, arg.y, arg.z)

(***************************************************************************)
(* C20: text before a frame.                                               *)
(***************************************************************************)
\* the first preamble of s is at a positive offset, after CR LF
TextBeforeFrame(s, idx) ==
    /\ idx >= 2
    /\ At(s, idx - 2) = CR
    /\ At(s, idx - 1) = LF

\* C20: whenever the first 0xD3 of the accumulator is at a positive offset
\* and the two bytes before it are CR LF, including offsets 2 and 3, the
\* call returns exactly the bytes before the preamble and keeps the rest.
C20_TextReturned ==
    (parts # <<>> /\ TextBeforeFrame(pre, bin_index(pre, RTCM_START))) =>
        /\ d = Slice(pre, 0, bin_index(pre, RTCM_START))
        /\ data = From(pre, bin_index(pre, RTCM_START))

\* C20, the part that holds: the same from offset 4 on.
C20_TextReturnedFrom4 ==
    (parts # <<>> /\ TextBeforeFrame(pre, bin_index(pre, RTCM_START))
        /\ bin_index(pre, RTCM_START) > 3) =>
        /\ d = Slice(pre, 0, bin_index(pre, RTCM_START))
        /\ data = From(pre, bin_index(pre, RTCM_START))

(***************************************************************************)
(* C21: the reserved bits of the header.                                   *)
(***************************************************************************)
\* C21: the frame length is the low 2 bits of byte 1 and byte 2; whatever
\* the six reserved bits of byte 1 are, a frame with a valid CRC is taken
\* as length+6 bytes and accepted, as it is with the reserved bits 0.
C21_ReservedBitsIgnored ==
    (res # None) =>
        /\ res[1].d = arg.frame
        /\ res[1].data = arg.tail

\* C21, the part that holds: with the reserved bits 0 the frame is taken.
C21_TakenWhenReservedZero ==
    (res # None /\ arg.reserved = 0) =>
        /\ res[1].d = arg.frame
        /\ res[1].data = arg.tail

(***************************************************************************)
(* C22: degmin_deg.                                                        *)
(***************************************************************************)
\* degrees + minutes/60 with 2 digits for N/S and 3 for E/W, negated for
\* S and W
DegreesOf(a) ==
    IF a.nsew = "N" THEN a.two
    ELSE IF a.nsew = "S" THEN -a.two
    ELSE IF a.nsew = "E" THEN a.three
    ELSE -a.three

\* C22: degmin_deg returns 0.0 when nsew is not one of the single letters
\* N, S, E, W (the empty string and "NS", "EW" included) or dm has fewer
\* than 4 characters, and otherwise degrees + minutes/60, negated exactly
\* for S and W.
C22_DegMinValue ==
    (res # None) =>
        /\ res[1].exc = "none"
        /\ res[1].v =
            IF arg.nsew \notin {"N", "S", "E", "W"} \/ Len(arg.dm) < 4
            THEN 0 ELSE DegreesOf(arg)

\* C22, the part that holds: the same for the four letters and for text
\* that does not occur in "NSEW".
C22_DegMinValueForLetters ==
    (res # None /\ arg.nsew \in {"N", "S", "E", "W", "X", "n", "WE"}) =>
        /\ res[1].exc = "none"
        /\ res[1].v =
            IF arg.nsew \notin {"N", "S", "E", "W"} \/ Len(arg.dm) < 4
            THEN 0 ELSE DegreesOf(arg)

(***************************************************************************)
(* C23: the accumulator is consumed from the front.                        *)
(***************************************************************************)
IsSuffix(x, s) == Len(x) <= Len(s) /\ SubSeq(s, Len(s) - Len(x) + 1, Len(s)) = x

\* all bytes received so far, in arrival order
RECURSIVE Stream(_)
Stream(ps) == IF ps = <<>> THEN <<>> ELSE Head(ps) \o Stream(Tail(ps))

\* the places at or after position from where unit u lies in s
PlacesOf(s, u, from) ==
    {k \in from..(Len(s) - Len(u) + 1) : SubSeq(s, k, k + Len(u) - 1) = u}

FirstPlace(places) == CHOOSE k \in places : \A j \in places : k <= j

\* the non-empty units us[i..] lie in s one after another, from position
\* from on, without overlap
RECURSIVE Embeds(_, _, _, _)
Embeds(s, us, i, from) ==
    IF i > Len(us) THEN TRUE
    ELSE IF us[i] = <<>> THEN Embeds(s, us, i + 1, from)
    ELSE /\ PlacesOf(s, us[i], from) # {}
         /\ Embeds(s, us, i + 1, FirstPlace(PlacesOf(s, us[i], from)) + Len(us[i]))

\* the bytes already consumed: the received stream without the accumulator
Consumed(s, acc) == SubSeq(s, 1, Len(s) - Len(acc))

\* C23: after every get_msg call the accumulator is a suffix of the
\* accumulator before the call, a non-empty returned unit is the prefix
\* that was removed, and the units returned so far are non-overlapping
\* pieces of the received stream in arrival order.
C23_ConsumedFromFront ==
    /\ IsSuffix(data, pre)
    /\ (d # <<>>) => (pre = d \o data)
    /\ IsSuffix(data, Stream(parts))
    /\ Embeds(Consumed(Stream(parts), data), outs, 1, 1)

C23_Witness ==
    /\ Len(outs) = 2
    /\ outs[1] = <<79, 75, CR, LF>>
    /\ outs[2] \in ValidFrames
    /\ pre = outs[2]
    /\ data = <<>>
    /\ Stream(parts) = outs[1] \o outs[2]

(***************************************************************************)
(* C24: several frames in one poll.                                        *)
(***************************************************************************)
\* the runs of frames that one poll() of SpecBurst delivers together
FrameRuns ==
    {<<Frame(<<>>), Frame(<<62>>)>>,
     <<Frame(<<62>>), Frame(<<>>), Frame(<<>>)>>}

\* the first poll brought the run fs and no later poll brought anything
OnlyPoll(fs) ==
    /\ parts # <<>>
    /\ parts[1] = Stream(fs)
    /\ \A i \in 2..Len(parts) : parts[i] = <<>>

\* C24: when one poll delivers k >= 2 CRC-valid frames back to back into an
\* empty accumulator and later polls deliver nothing, the first k calls
\* return the k frames one per call in arrival order, the accumulator is
\* empty after the k-th call, and later calls return empty.
C24_OneFramePerCall ==
    \A fs \in FrameRuns :
        OnlyPoll(fs) =>
            /\ \A i \in 1..Len(outs) :
                outs[i] = IF i <= Len(fs) THEN fs[i] ELSE <<>>
            /\ (Len(outs) >= Len(fs)) => (data = <<>>)
            /\ (Len(outs) < Len(fs)) =>
                (data = Stream(SubSeq(fs, Len(outs) + 1, Len(fs))))

C24_Witness ==
    /\ OnlyPoll(<<Frame(<<62>>), Frame(<<>>), Frame(<<>>)>>)
    /\ outs = <<Frame(<<62>>), Frame(<<>>), Frame(<<>>), <<>>>>
    /\ data = <<>>

(***************************************************************************)
(* C25: what the streaming loop writes to the receiver.                    *)
(***************************************************************************)
\* C25: every byte sequence passed to ser_out() is a CRC-validated frame
\* that starts with 0xD3; text returned by receive_rtcm(), such as the
\* caster's answer before the first frame, is never written.
C25_OnlyFramesWritten ==
    \A i \in 1..Len(written) :
        /\ written[i][1] = RTCM_START
        /\ crc24(written[i]) = 0

\* C25, the part that holds: whatever is written was returned by
\* receive_rtcm(), and what is written and starts with 0xD3 has CRC
\* residual 0.
C25_WrittenWasReturned ==
    \A i \in 1..Len(written) :
        /\ \E j \in 1..Len(outs) : outs[j] = written[i]
        /\ (written[i][1] = RTCM_START) => (crc24(written[i]) = 0)


====
